---- MODULE Spec2Model ----
(***************************************************************************)
(* Model of the PixelHolo Voice Studio front end (src/App.tsx): the        *)
(* streaming synthesis session of the React component (startInference,     *)
(* stopInference, scheduleBuffer), its DOM-bound twin (streamBtn handler,  *)
(* stopStream, scheduleBuffer), the line reader both share                 *)
(* (streamResponseLines / streamTextResponse) and the API base preference  *)
(* of the React component (its localStorage effects and its probe).        *)
(*                                                                         *)
(* Times are integers in milliseconds (the source uses seconds as floats:  *)
(* 0.05 s = 50, 0.008 s = 8).  The event loop is single-threaded: every    *)
(* action is one synchronous run of a handler or continuation, from one    *)
(* await to the next.                                                      *)
(***************************************************************************)
EXTENDS Integers, Sequences, FiniteSets, TLC

\* ---------------------------------------------------------------- bounds
MaxSessions == 2      \* AbortControllers (sessions) created in one run
MaxLines == 2         \* lines delivered to the handlers in one run
MaxTicks == 1         \* clock advances in one run
MaxPendingStarts == 2 \* start handlers suspended at ensureAudioContext at once
MaxInput == 4         \* characters of a response body given to the line reader
MaxReads == 3         \* reads the body is cut into

\* ------------------------------------------------------ program constants
SafetyMargin == 50      \* ctx.currentTime + 0.05
Overlap == 8            \* const overlap = 0.008
DomStartOffset == 100   \* state.audioCtx.currentTime + 0.1
TickStep == 100         \* granularity of the modelled clocks
ReportedMs == 900       \* an inference_ms value carried by a done record (spec.md section 8)

NoMs == 0 - 1           \* inference_ms absent from the record
NoTime == 0 - 1         \* firstChunkTime === null
Undecodable == 0 - 1    \* payload that decodeAudioData rejects

Durations == {4, 100}   \* buffer.duration of decodable payloads
NoIndex == 0 - 1        \* no chunk_index in the record
Indexes == {0}          \* chunk_index of the audio records of the session runs

\* scheduleBuffer's fades are fractions of a millisecond for short buffers:
\* the gain envelope is computed in microseconds.
MicroPerMs == 1000
Attack == 10000         \* const attack = 0.01
Release == 10000        \* const release = 0.01
MinFade == 2000         \* Math.max(0.002, ...)

\* buffer.duration and chunk_index of the chunks given to scheduleBuffer when
\* its envelope and its handling of short and empty buffers are examined
ChunkDurations == {0, 1, 4, 40}
ChunkIndexes == {0, 1}

Max(a, b) == IF a >= b THEN a ELSE b
Min(a, b) == IF a <= b THEN a ELSE b

Sessions == 1..MaxSessions

\* Strings are sequences of characters.
Whitespace == {" ", "\n"}

\* String.prototype.trim
RECURSIVE TrimStart(_)
TrimStart(str) == IF str # <<>> /\ Head(str) \in Whitespace THEN TrimStart(Tail(str)) ELSE str
RECURSIVE TrimEnd(_)
TrimEnd(str) == IF str # <<>> /\ str[Len(str)] \in Whitespace
                  THEN TrimEnd(SubSeq(str, 1, Len(str) - 1)) ELSE str
\* (mutant) only the leading whitespace is removed
Trim_StartOnly(str) == TrimStart(str)

Trim(str) == TrimEnd(TrimStart(str))

\* ----------------------------------------------------------- the form fields
\* What the speaker (profile name) and text fields can hold: nothing, blanks,
\* or something.
FieldValues == {<<>>, <<" ">>, <<"a">>}

\* (mutant) the input check is left out
InputsMissing_Never(speaker, text) == FALSE

\* if (!profile.name || !inferenceText) return;     (React)
\* if (!profile || !text) { ...; return; }           (DOM, on the trimmed values)
InputsMissing(speaker, text) == speaker = <<>> \/ text = <<>>

ProvidePrompt == "Provide profile name and text."

\* ------------------------------------------------------------------ lines
\* One line handed to the /stream line handler, by what the handler reads of it.
\*   bad    not valid JSON
\*   null   the JSON text `null`: JSON.parse returns null
\*   other  any other valid JSON with neither event:'done' nor audio_base64
\*   done   {event:'done', inference_ms?}
\*   audio  {chunk_index, audio_base64}: b64ok = atob accepts the payload,
\*          dur = duration of the decoded buffer, or Undecodable
\*          index = chunk_index
BadLine == [kind |-> "bad", ms |-> NoMs, b64ok |-> FALSE, dur |-> Undecodable, index |-> NoIndex]
NullLine == [kind |-> "null", ms |-> NoMs, b64ok |-> FALSE, dur |-> Undecodable, index |-> NoIndex]
OtherLine == [kind |-> "other", ms |-> NoMs, b64ok |-> FALSE, dur |-> Undecodable, index |-> NoIndex]
DoneLines == {[kind |-> "done", ms |-> m, b64ok |-> FALSE, dur |-> Undecodable, index |-> NoIndex] : m \in {NoMs, ReportedMs}}
AudioLinesOf(durs, idxs) ==
  {[kind |-> "audio", ms |-> NoMs, b64ok |-> TRUE, dur |-> d, index |-> i] : d \in durs, i \in idxs}
AudioLines == {[kind |-> "audio", ms |-> NoMs, b64ok |-> FALSE, dur |-> Undecodable, index |-> 0]}
                \cup AudioLinesOf(Durations \cup {Undecodable}, Indexes)
ChunkLines == AudioLinesOf(ChunkDurations, ChunkIndexes)
StreamLines == {BadLine, NullLine, OtherLine} \cup DoneLines \cup AudioLines

\* useState('http://127.0.0.1:8000')
DefaultApiBase == "http://127.0.0.1:8000"
\* What the API Base field can be given: nothing, the default, other URLs.
BaseValues == {"", DefaultApiBase, "http://10.0.0.2:8000", "http://10.0.0.3:8000"}
StorageMissing == "<null>"     \* localStorage.getItem(...) === null
NoUpdate == "<none>"           \* no state update queued

NoLatency == [set |-> FALSE, ttfa |-> 0, total |-> 0]
NoTiming == [kind |-> "none", ms |-> 0]

VARIABLES
  impl,               \* which of the two implementations in App.tsx is running
  perfNow,            \* performance.now()
  ticks,              \* clock advances so far
  currentTime,        \* currentTime of the audio context held by the implementation
  suspended,          \* that context's state is 'suspended': created so, resume() not yet resolved
  session,            \* per AbortController: the closure state of its start handler
  nSessions,          \* AbortControllers created so far
  pendingStarts,      \* start handlers suspended at `await ensureAudioContext()`
  pendingStops,       \* stopInference calls whose `await resetAudio()` has settled, not yet resumed
  decodes,            \* decodeAudioData promises not yet settled
  rejections,         \* promises of the line handler that rejected (nobody awaits them)
  \* React component
  audioContextRef, nextStartTimeRef, streamAbortRef,
  inferenceStatus, latency, inferenceChunks,
  \* DOM-bound implementation
  stateAudioCtx, stateNextStart, stateStreamAbort, streamStatus, streamTiming,
  \* observation: the audio sources started since nextStart was last reset
  scheduled,
  \* line reader
  rdInput, rdRest, rdBuffer, rdLines, rdState, rdReads,
  \* the API base preference
  apiBase,            \* the apiBase state of the mounted component
  storedApiBase,      \* localStorage item 'voxclone_api_base' (StorageMissing: null)
  pendingApiBase,     \* setApiBase(cached) queued by the mount effect, not yet rendered
  appPhase,           \* unmounted, mounting (rendered, effects due), mounted
  apiStatus,          \* the apiStatus state: checking, online, offline
  probes,             \* fetches of `${apiBase}/docs` not yet settled, with their `cancelled`
  lastSet,            \* observation: the value the user last gave apiBase
  \* the workflow (React)
  activeStep,         \* the stage shown, 1..4
  profileName,        \* profile.name
  lastUploadedFilename,
  preprocessStats,    \* the statistics of the last preprocess run, or null
  stepStatuses,       \* stepStatuses.upload / .preprocess / .train
  profiles,           \* the list the last settled loadProfiles() stored
  profilesStatus,     \* idle, loading, error
  pendingLoads,       \* loadProfiles() calls whose fetch has not settled
  runs,               \* handleUpload / startPreprocess / startTraining calls not yet settled
  nRuns               \* such calls so far

sessionVars == <<session, nSessions, pendingStarts, decodes>>
clockVars == <<perfNow, ticks, currentTime, suspended>>
reactVars == <<audioContextRef, nextStartTimeRef, streamAbortRef, inferenceStatus, latency, inferenceChunks>>
domVars == <<stateAudioCtx, stateNextStart, stateStreamAbort, streamStatus, streamTiming>>
readerVars == <<rdInput, rdRest, rdBuffer, rdLines, rdState, rdReads>>
prefVars == <<apiBase, storedApiBase, pendingApiBase, appPhase, apiStatus, probes, lastSet>>
flowVars == <<activeStep, profileName, lastUploadedFilename, preprocessStats, stepStatuses, profiles, profilesStatus,
              pendingLoads, runs, nRuns>>
vars == <<impl, clockVars, sessionVars, rejections, reactVars, domVars, scheduled, readerVars, prefVars,
          flowVars, pendingStops>>

\* st: the request (unused, fetching, reading, then closed at the end of the
\* body, failed on an error, cancelled on its AbortError); aborted / abortedBy:
\* the controller's signal and the handler that first aborted it; firstChunk
\* (React) and firstChunkTime (DOM): the closure's locals; lines: the kinds
\* of the lines handed to the handler so far.
NoSession == [st |-> "unused", aborted |-> FALSE, abortedBy |-> "none", firstChunk |-> TRUE,
              firstChunkTime |-> NoTime, startTime |-> 0, lines |-> <<>>]

\* ------------------------------------------------------------ the clocks
\* performance.now() always advances.  The audio clock advances with it while
\* the context is running: a context that does not exist has no clock, and
\* the clock of a context that is suspended (created so by the platform, until
\* the resume() of ensureAudioContext resolves) or that close() was called on
\* stands still.
HasContext == IF impl = "react" THEN audioContextRef # "null" ELSE stateAudioCtx # "null"

ContextRunning ==
  /\ ~suspended
  /\ IF impl = "react" THEN audioContextRef = "open" ELSE stateAudioCtx = "open"

Tick ==
  /\ ticks < MaxTicks
  /\ ticks' = ticks + 1
  /\ perfNow' = perfNow + TickStep
  /\ currentTime' = IF ContextRunning THEN currentTime + TickStep ELSE currentTime
  /\ UNCHANGED <<suspended, impl, rejections, sessionVars, reactVars, domVars, scheduled, readerVars, prefVars, flowVars, pendingStops>>

\* ------------------------------------------------- scheduleBuffer (React)
\* (mutant) the clock is not consulted
StartAt_NextStartOnly(ctxTime, nextStart) == nextStart

\* const startAt = Math.max(ctx.currentTime + 0.05, nextStartTimeRef.current)
StartAt(ctxTime, nextStart) == Max(ctxTime + SafetyMargin, nextStart)

\* (mutant) the overlap is left out
NextStartAfter_NoOverlap(startAt, duration) == startAt + duration

\* nextStartTimeRef.current = startAt + buffer.duration - overlap
NextStartAfter(startAt, duration) == startAt + duration - Overlap

\* const safeAttack = Math.min(attack, Math.max(0.002, buffer.duration / 4))
SafeAttack(duration) == Min(Attack, Max(MinFade, (duration * MicroPerMs) \div 4))

\* const safeRelease = Math.min(release, Math.max(0.002, buffer.duration / 4))
SafeRelease(duration) == Min(Release, Max(MinFade, (duration * MicroPerMs) \div 4))

\* The four automation events scheduleBuffer puts on gain.gain, by their
\* times: setValueAtTime(0, zeroAt), linearRampToValueAtTime(1, fullAt),
\* setValueAtTime(1, holdAt), linearRampToValueAtTime(0, endAt).
Envelope(startAt, duration) ==
  [zeroAt |-> startAt * MicroPerMs,
   fullAt |-> startAt * MicroPerMs + SafeAttack(duration),
   holdAt |-> Max(startAt * MicroPerMs + SafeAttack(duration),
                  startAt * MicroPerMs + duration * MicroPerMs - SafeRelease(duration)),
   endAt |-> startAt * MicroPerMs + duration * MicroPerMs,
   attack |-> SafeAttack(duration), release |-> SafeRelease(duration)]

\* The DOM scheduleBuffer connects the source to the destination: no gain node.
NoEnvelope == [zeroAt |-> NoTime, fullAt |-> NoTime, holdAt |-> NoTime, endAt |-> NoTime,
               attack |-> 0, release |-> 0]

\* What scheduleBuffer leaves in nextStartTimeRef: no context, no change.
ScheduleBufferNext(ctx, ctxTime, nextStart, duration) ==
  IF ctx = "null" THEN nextStart
  ELSE NextStartAfter(StartAt(ctxTime, nextStart), duration)

\* The sources started so far, with the one scheduleBuffer starts (none
\* without a context).
ScheduleBufferStarted(ctx, ctxTime, nextStart, d) ==
  IF ctx = "null" THEN scheduled
  ELSE Append(scheduled, [sess |-> d.sess, line |-> d.line, dur |-> d.dur, index |-> d.index,
                          startAt |-> StartAt(ctxTime, nextStart),
                          now |-> ctxTime, nextBefore |-> nextStart,
                          env |-> Envelope(StartAt(ctxTime, nextStart), d.dur)])

\* ---------------------------------------------------------- AbortController
\* (mutant) abort() has no effect
Abort_Nothing(sess, ref, who) == sess

\* if (ref) ref.abort(): idempotent; `who` is the handler calling it.
Abort(sess, ref, who) ==
  IF ref = 0 \/ sess[ref].aborted THEN sess
  ELSE [sess EXCEPT ![ref].aborted = TRUE, ![ref].abortedBy = who]

\* (mutant) startInference replaces the controller without aborting it
AbortPrevious_Skipped(sess, ref) == sess

\* if (streamAbortRef.current) streamAbortRef.current.abort()   (startInference)
AbortPrevious(sess, ref) == Abort(sess, ref, "start")

InFlight(s) == session[s].st \in {"fetching", "reading"}
Live(s) == InFlight(s) /\ ~session[s].aborted

\* Math.round(performance.now() - startTime)
Elapsed(s) == perfNow - session[s].startTime

\* data.inference_ms ?? Math.round(performance.now() - startTime)
TotalMs(ms, elapsed) == IF ms # NoMs THEN ms ELSE elapsed

\* --------------------------------------------------- startInference (React)
\* Up to `await ensureAudioContext()`: the input check, which ends the call
\* when a field is empty, and the synchronous part of ensureAudioContext, which
\* creates the context when there is none and calls resume() on a suspended
\* one.  Whether a new context starts out running or suspended is the
\* platform's choice.
StartInferenceCall(speaker, text) ==
  /\ impl = "react"
  /\ pendingStops = 0
  /\ IF InputsMissing(speaker, text)
       THEN UNCHANGED vars
       ELSE /\ pendingStarts < MaxPendingStarts
            /\ nSessions + pendingStarts < MaxSessions
            /\ IF audioContextRef = "null"
                 THEN audioContextRef' = "open" /\ currentTime' = 0 /\ suspended' \in BOOLEAN
                 ELSE UNCHANGED <<audioContextRef, currentTime, suspended>>
            /\ pendingStarts' = pendingStarts + 1
            /\ UNCHANGED <<impl, rejections, perfNow, ticks, session, nSessions, decodes, nextStartTimeRef,
                           streamAbortRef, inferenceStatus, latency, inferenceChunks,
                           domVars, scheduled, readerVars, prefVars, flowVars, pendingStops>>

\* From the await to the fetch: reset of the state, abort of the previous
\* controller, a new controller, the request.  The handler of a suspended
\* context resumes when resume() has resolved: the context is running.
StartInferenceResume ==
  /\ impl = "react"
  /\ pendingStarts > 0
  /\ pendingStarts' = pendingStarts - 1
  /\ suspended' = FALSE
  /\ inferenceStatus' = "running"
  /\ inferenceChunks' = <<>>
  /\ latency' = NoLatency
  /\ nextStartTimeRef' = IF audioContextRef = "null" THEN 0 ELSE currentTime
  /\ scheduled' = <<>>
  /\ nSessions' = nSessions + 1
  /\ session' = [AbortPrevious(session, streamAbortRef) EXCEPT ![nSessions + 1] =
                   [st |-> "fetching", aborted |-> FALSE, abortedBy |-> "none", firstChunk |-> TRUE,
                    firstChunkTime |-> NoTime, startTime |-> perfNow, lines |-> <<>>]]
  /\ streamAbortRef' = nSessions + 1
  /\ UNCHANGED <<impl, rejections, perfNow, ticks, currentTime, decodes, audioContextRef, domVars, readerVars,
                 prefVars, flowVars, pendingStops>>

\* ------------------------------------------------------ the /stream request
\* (mutant) the catch reports whatever it catches
CatchReports_Everything(errName) == TRUE

\* (mutant) the catch reports nothing
CatchReports_Nothing(errName) == FALSE

\* catch (err) { if (err.name !== 'AbortError') <status: error> }
CatchReports(errName) == errName # "AbortError"

\* What rejects the request or the read: `throw new Error(await res.text())`
\* on a response that is not ok, a TypeError from fetch or from the reader on
\* a network failure.
ErrorName(outcome) == IF outcome = "http_error" THEN "Error" ELSE "TypeError"

\* The status the catch block leaves behind.
StatusAfterCatch(errName) ==
  IF impl = "react"
    THEN /\ inferenceStatus' = IF CatchReports(errName) THEN "error" ELSE inferenceStatus
         /\ UNCHANGED streamStatus
    ELSE /\ streamStatus' = IF CatchReports(errName) THEN "Error" ELSE streamStatus
         /\ UNCHANGED inferenceStatus

\* The response arrives (res.ok or not), or the request fails; an aborted
\* request only ever rejects with AbortError.
FetchSettles(s, outcome) ==
  /\ session[s].st = "fetching"
  /\ ~session[s].aborted
  /\ IF outcome = "ok"
       THEN /\ session' = [session EXCEPT ![s].st = "reading"]
            /\ UNCHANGED <<inferenceStatus, streamStatus>>
       ELSE /\ session' = [session EXCEPT ![s].st = "failed"]
            /\ StatusAfterCatch(ErrorName(outcome))
  /\ UNCHANGED <<impl, rejections, clockVars, nSessions, pendingStarts, decodes, audioContextRef,
                 nextStartTimeRef, streamAbortRef, latency, inferenceChunks,
                 stateAudioCtx, stateNextStart, stateStreamAbort, streamTiming,
                 scheduled, readerVars, prefVars, flowVars, pendingStops>>

\* The fetch or the read of an aborted session rejects with AbortError and the
\* handler ends in its catch block.
AbortObserved(s) ==
  /\ InFlight(s)
  /\ session[s].aborted
  /\ session' = [session EXCEPT ![s].st = "cancelled"]
  /\ StatusAfterCatch("AbortError")
  /\ UNCHANGED <<impl, rejections, clockVars, nSessions, pendingStarts, decodes, audioContextRef,
                 nextStartTimeRef, streamAbortRef, latency, inferenceChunks,
                 stateAudioCtx, stateNextStart, stateStreamAbort, streamTiming,
                 scheduled, readerVars, prefVars, flowVars, pendingStops>>

\* reader.read() resolves with done: streamResponseLines returns.
StreamEnds(s) ==
  /\ session[s].st = "reading"
  /\ ~session[s].aborted
  /\ session' = [session EXCEPT ![s].st = "closed"]
  /\ UNCHANGED <<impl, rejections, clockVars, nSessions, pendingStarts, decodes, reactVars, domVars,
                 scheduled, readerVars, prefVars, flowVars, pendingStops>>

\* reader.read() rejects with a transport error.
ReadFails(s) ==
  /\ session[s].st = "reading"
  /\ ~session[s].aborted
  /\ session' = [session EXCEPT ![s].st = "failed"]
  /\ StatusAfterCatch(ErrorName("network_error"))
  /\ UNCHANGED <<impl, rejections, clockVars, nSessions, pendingStarts, decodes, audioContextRef,
                 nextStartTimeRef, streamAbortRef, latency, inferenceChunks,
                 stateAudioCtx, stateNextStart, stateStreamAbort, streamTiming,
                 scheduled, readerVars, prefVars, flowVars, pendingStops>>

\* ------------------------------------------------ the line handler (React)
\* What makes the React handler throw before its first await: JSON.parse on a
\* line that is not JSON, `data.event` when JSON.parse returned null, atob on
\* invalid base64, decodeAudioData of a null audioContextRef.current.
HandlerRejects(line, ctx) ==
  \/ line.kind = "bad"
  \/ line.kind = "null"
  \/ line.kind = "audio" /\ (~line.b64ok \/ ctx = "null")

\* (mutant) a synchronous handler: what it throws reaches the reader loop
OnLineThrows_Sync(line, ctx) == HandlerRejects(line, ctx)

\* The handler is `async line => {...}` and streamResponseLines calls it as
\* onLine(line), without awaiting: whatever it throws (JSON.parse, atob, a
\* null audioContextRef.current) rejects a promise nobody observes, and
\* nothing is thrown into the reader loop.
OnLineThrows(line, ctx) == FALSE

\* (mutant) firstChunk is never cleared
FirstChunkAfter_NeverCleared(isAudio, firstChunk) == firstChunk

\* firstChunk after the line: `if (firstChunk) { firstChunk = false; ... }`
\* is reached by every line carrying audio_base64.
FirstChunkAfter(isAudio, firstChunk) == IF isAudio THEN FALSE ELSE firstChunk

\* setLatency on a done record:
\*   prev ? { ...prev, total: data.inference_ms ?? elapsed } : null
LatencyOnDone(prev, ms, elapsed) ==
  IF prev.set THEN [prev EXCEPT !.total = TotalMs(ms, elapsed)] ELSE NoLatency

\* setLatency({ ttfa: elapsed, total: 0 }) on the first audio line
LatencyOnFirstAudio(elapsed) == [set |-> TRUE, ttfa |-> elapsed, total |-> 0]

ReactOnLine(s, line) ==
  LET n == Len(session[s].lines) + 1
      isAudio == line.kind = "audio"
      first == isAudio /\ session[s].firstChunk
      decoding == isAudio /\ ~HandlerRejects(line, audioContextRef)
      thrown == OnLineThrows(line, audioContextRef)
  IN
  /\ latency' = CASE line.kind = "done" -> LatencyOnDone(latency, line.ms, Elapsed(s))
                  [] first -> LatencyOnFirstAudio(Elapsed(s))
                  [] OTHER -> latency
  /\ inferenceStatus' = IF thrown THEN "error"
                        ELSE IF line.kind = "done" THEN "done" ELSE inferenceStatus
  /\ session' = [session EXCEPT ![s].lines = Append(@, line.kind),
                                ![s].firstChunk = FirstChunkAfter(isAudio, @),
                                ![s].st = IF thrown THEN "failed" ELSE @]
  /\ rejections' = IF HandlerRejects(line, audioContextRef) THEN rejections + 1 ELSE rejections
  /\ decodes' = IF decoding
                  THEN decodes \cup {[sess |-> s, line |-> n, dur |-> line.dur, index |-> line.index]}
                  ELSE decodes
  /\ UNCHANGED <<audioContextRef, nextStartTimeRef, streamAbortRef, inferenceChunks,
                 domVars, scheduled>>

\* `await decodeAudioData` resolves: scheduleBuffer(buffer), then the chunk
\* is appended to inferenceChunks.
ReactDecodeResolves(d) ==
  /\ nextStartTimeRef' = ScheduleBufferNext(audioContextRef, currentTime, nextStartTimeRef, d.dur)
  /\ scheduled' = ScheduleBufferStarted(audioContextRef, currentTime, nextStartTimeRef, d)
  /\ inferenceChunks' = Append(inferenceChunks, [sess |-> d.sess, line |-> d.line, index |-> d.index,
                                                  duration |-> d.dur])
  /\ UNCHANGED <<audioContextRef, streamAbortRef, inferenceStatus, latency, domVars>>

\* ---------------------------------------------------- stopInference (React)
\* stopInference up to `await resetAudio()`: abort, then the synchronous part
\* of resetAudio.  With no context resetAudio resets nextStartTime and returns;
\* with one it calls close() and waits.  close() on a context already closing
\* settles with the close in progress or rejects: either way this call changes
\* nothing more.  A context close() was called on is suspended no longer: its
\* clock stands still until it is gone.  The call is a click handler: it
\* starts when the continuations queued before it have run.
StopInferenceCall ==
  /\ impl = "react"
  /\ pendingStops = 0
  /\ session' = Abort(session, streamAbortRef, "stop")
  /\ CASE audioContextRef = "null" ->
            /\ nextStartTimeRef' = 0
            /\ scheduled' = <<>>
            /\ pendingStops' = pendingStops + 1
            /\ UNCHANGED <<audioContextRef, suspended>>
       [] audioContextRef = "open" ->
            /\ audioContextRef' = "closing"
            /\ suspended' = FALSE
            /\ UNCHANGED <<nextStartTimeRef, scheduled, pendingStops>>
       [] OTHER -> UNCHANGED <<audioContextRef, suspended, nextStartTimeRef, scheduled, pendingStops>>
  /\ UNCHANGED <<impl, rejections, perfNow, ticks, currentTime, nSessions, pendingStarts, decodes, streamAbortRef,
                 inferenceStatus, latency, inferenceChunks, domVars, readerVars, prefVars, flowVars>>

\* close() resolves and resetAudio resumes: audioContextRef.current = null;
\* nextStartTimeRef.current = 0.  Its promise settles; stopInference resumes
\* in a later continuation.
StopInferenceClosed ==
  /\ impl = "react"
  /\ audioContextRef = "closing"
  /\ audioContextRef' = "null"
  /\ currentTime' = 0
  /\ nextStartTimeRef' = 0
  /\ scheduled' = <<>>
  /\ pendingStops' = pendingStops + 1
  /\ UNCHANGED <<impl, rejections, perfNow, ticks, suspended, sessionVars, streamAbortRef, inferenceStatus,
                 latency, inferenceChunks, domVars, readerVars, prefVars, flowVars>>

\* stopInference after `await resetAudio()`: setStepStatuses(inference:
\* 'idle').  The rejection of a fetch aborted before the await was queued
\* first: the catch block of that startInference has run by now.
StopInferenceResume ==
  /\ impl = "react"
  /\ pendingStops > 0
  /\ ~\E s \in Sessions : session[s].st = "fetching" /\ session[s].aborted
  /\ pendingStops' = pendingStops - 1
  /\ inferenceStatus' = "idle"
  /\ UNCHANGED <<impl, rejections, clockVars, sessionVars, audioContextRef, nextStartTimeRef,
                 streamAbortRef, latency, inferenceChunks, domVars, scheduled, readerVars, prefVars,
                 flowVars>>

\* ------------------------------------------------- DOM-bound implementation
\* const startAt = Math.max(state.nextStart, state.audioCtx.currentTime + 0.05)
DomStartAt(nextStart, ctxTime) == Max(nextStart, ctxTime + SafetyMargin)

\* state.nextStart = startAt + buffer.duration
DomNextStartAfter(startAt, duration) == startAt + duration

\* streamBtn click, up to `await ensureAudioContext()`: the input check on the
\* trimmed fields, which ends the call with a prompt in the status line, and
\* the synchronous part of ensureAudioContext (a new context starts out
\* running or suspended, as the platform chooses).
StreamBtnClick(profile, text) ==
  /\ impl = "dom"
  /\ IF InputsMissing(Trim(profile), Trim(text))
       THEN /\ streamStatus' = ProvidePrompt
            /\ UNCHANGED <<impl, rejections, clockVars, sessionVars, reactVars, stateAudioCtx,
                           stateNextStart, stateStreamAbort, streamTiming, scheduled, readerVars, prefVars, flowVars, pendingStops>>
       ELSE /\ pendingStarts < MaxPendingStarts
            /\ nSessions + pendingStarts < MaxSessions
            /\ streamStatus' = "Streaming..."
            /\ streamTiming' = NoTiming
            /\ IF stateAudioCtx = "null"
                 THEN stateAudioCtx' = "open" /\ currentTime' = 0 /\ suspended' \in BOOLEAN
                 ELSE UNCHANGED <<stateAudioCtx, currentTime, suspended>>
            /\ pendingStarts' = pendingStarts + 1
            /\ UNCHANGED <<impl, rejections, perfNow, ticks, session, nSessions, decodes, reactVars,
                           stateNextStart, stateStreamAbort, scheduled, readerVars, prefVars, flowVars, pendingStops>>

\* streamBtn click, from the await to the fetch (resume() has resolved: the
\* context is running).  The previous controller is replaced, not aborted.
StreamBtnResume ==
  /\ impl = "dom"
  /\ pendingStarts > 0
  /\ pendingStarts' = pendingStarts - 1
  /\ suspended' = FALSE
  /\ stateNextStart' = currentTime + DomStartOffset
  /\ scheduled' = <<>>
  /\ nSessions' = nSessions + 1
  /\ session' = [session EXCEPT ![nSessions + 1] =
                   [st |-> "fetching", aborted |-> FALSE, abortedBy |-> "none", firstChunk |-> TRUE,
                    firstChunkTime |-> NoTime, startTime |-> perfNow, lines |-> <<>>]]
  /\ stateStreamAbort' = nSessions + 1
  /\ UNCHANGED <<impl, rejections, perfNow, ticks, currentTime, decodes, reactVars, stateAudioCtx,
                 streamStatus, streamTiming, readerVars, prefVars, flowVars, pendingStops>>

\* if (!firstChunkTime) { firstChunkTime = performance.now() - start; ... }
DomFirstChunkTimeAfter(isAudio, firstChunkTime, elapsed) ==
  IF isAudio /\ (firstChunkTime = NoTime \/ firstChunkTime = 0) THEN elapsed ELSE firstChunkTime

\* The DOM handler wraps its whole body in try/catch: a line it cannot parse
\* or decode, and the TypeError of `data.event` on null, is logged ("Parse
\* error").
DomOnLine(s, line) ==
  LET n == Len(session[s].lines) + 1
      isAudio == line.kind = "audio"
      first == isAudio /\ (session[s].firstChunkTime = NoTime \/ session[s].firstChunkTime = 0)
      decoding == isAudio /\ line.b64ok
  IN
  /\ streamTiming' = CASE line.kind = "done" -> [kind |-> "total", ms |-> Elapsed(s)]
                       [] first -> [kind |-> "first", ms |-> Elapsed(s)]
                       [] OTHER -> streamTiming
  /\ streamStatus' = IF line.kind = "done" THEN "Done." ELSE streamStatus
  /\ session' = [session EXCEPT ![s].lines = Append(@, line.kind),
                                ![s].firstChunkTime = DomFirstChunkTimeAfter(isAudio, @, Elapsed(s))]
  /\ decodes' = IF decoding
                  THEN decodes \cup {[sess |-> s, line |-> n, dur |-> line.dur, index |-> line.index]}
                  ELSE decodes
  /\ UNCHANGED <<rejections, reactVars, stateAudioCtx, stateNextStart, stateStreamAbort, scheduled>>

DomDecodeResolves(d) ==
  /\ stateNextStart' = DomNextStartAfter(DomStartAt(stateNextStart, currentTime), d.dur)
  /\ scheduled' = Append(scheduled, [sess |-> d.sess, line |-> d.line, dur |-> d.dur, index |-> d.index,
                                     startAt |-> DomStartAt(stateNextStart, currentTime),
                                     now |-> currentTime, nextBefore |-> stateNextStart,
                                     env |-> NoEnvelope])
  /\ UNCHANGED <<reactVars, stateAudioCtx, stateStreamAbort, streamStatus, streamTiming>>

\* stopStream: abort and forget the controller; the context and nextStart stay.
StopStream ==
  /\ impl = "dom"
  /\ session' = Abort(session, stateStreamAbort, "stop")
  /\ stateStreamAbort' = 0
  /\ streamStatus' = "Stopped."
  /\ UNCHANGED <<impl, rejections, clockVars, nSessions, pendingStarts, decodes, reactVars,
                 stateAudioCtx, stateNextStart, streamTiming, scheduled, readerVars, prefVars, flowVars, pendingStops>>

\* --------------------------------------------- lines and decodes, both twins
RECURSIVE LinesDelivered(_)
LinesDelivered(k) == IF k = 0 THEN 0 ELSE Len(session[k].lines) + LinesDelivered(k - 1)

\* streamResponseLines / streamTextResponse hand one line to the handler,
\* which runs up to its first await.
DeliverLine(s, line) ==
  /\ session[s].st = "reading"
  /\ ~session[s].aborted
  /\ LinesDelivered(MaxSessions) < MaxLines
  /\ IF impl = "react" THEN ReactOnLine(s, line) ELSE DomOnLine(s, line)
  /\ UNCHANGED <<impl, clockVars, nSessions, pendingStarts, readerVars, prefVars, flowVars, pendingStops>>

\* (mutant) the decoded chunk is held back until the response has ended
DecodeResolves_AfterStreamEnd(d) ==
  /\ d \in decodes
  /\ d.dur # Undecodable
  /\ ~InFlight(d.sess)
  /\ decodes' = decodes \ {d}
  /\ IF impl = "react" THEN ReactDecodeResolves(d) ELSE DomDecodeResolves(d)
  /\ UNCHANGED <<impl, rejections, clockVars, session, nSessions, pendingStarts, readerVars, prefVars, flowVars, pendingStops>>

\* decodeAudioData settles, in whatever order the decoder finishes.
DecodeResolves(d) ==
  /\ d \in decodes
  /\ d.dur # Undecodable
  /\ decodes' = decodes \ {d}
  /\ IF impl = "react" THEN ReactDecodeResolves(d) ELSE DomDecodeResolves(d)
  /\ UNCHANGED <<impl, rejections, clockVars, session, nSessions, pendingStarts, readerVars, prefVars, flowVars, pendingStops>>

\* (mutant) a rejected decode is scheduled like a resolved one
DecodeRejects_Scheduled(d) ==
  /\ d \in decodes
  /\ d.dur = Undecodable
  /\ decodes' = decodes \ {d}
  /\ IF impl = "react" THEN ReactDecodeResolves(d) ELSE DomDecodeResolves(d)
  /\ UNCHANGED <<impl, rejections, clockVars, session, nSessions, pendingStarts, readerVars, prefVars, flowVars, pendingStops>>

\* decodeAudioData rejects: the handler's promise rejects (React) or its catch
\* logs the error (DOM); scheduleBuffer is not reached.
DecodeRejects(d) ==
  /\ d \in decodes
  /\ d.dur = Undecodable
  /\ decodes' = decodes \ {d}
  /\ rejections' = IF impl = "react" THEN rejections + 1 ELSE rejections
  /\ UNCHANGED <<impl, clockVars, session, nSessions, pendingStarts, reactVars, domVars,
                 scheduled, readerVars, prefVars, flowVars, pendingStops>>

DecodeIds == [sess : Sessions, line : 1..MaxLines, dur : Durations \cup {Undecodable}, index : Indexes]

\* ------------------------------------------------------------ specification
ReaderIdle ==
  /\ rdInput = <<>> /\ rdRest = <<>> /\ rdBuffer = <<>> /\ rdLines = <<>> /\ rdState = "idle"
  /\ rdReads = 0

SessionInit ==
  /\ perfNow = 0 /\ ticks = 0 /\ currentTime = 0 /\ suspended = FALSE
  /\ session = [s \in Sessions |-> NoSession]
  /\ nSessions = 0 /\ pendingStarts = 0 /\ pendingStops = 0 /\ decodes = {} /\ rejections = 0
  /\ audioContextRef = "null" /\ nextStartTimeRef = 0 /\ streamAbortRef = 0
  /\ inferenceStatus = "idle" /\ latency = NoLatency /\ inferenceChunks = <<>>
  /\ stateAudioCtx = "null" /\ stateNextStart = 0 /\ stateStreamAbort = 0
  /\ streamStatus = "" /\ streamTiming = NoTiming
  /\ scheduled = <<>>

\* The preference is not part of the streaming session: there it is a mounted
\* component with the default base stored.
PrefIdle ==
  /\ apiBase = DefaultApiBase /\ storedApiBase = DefaultApiBase
  /\ pendingApiBase = NoUpdate /\ appPhase = "mounted" /\ lastSet = NoUpdate
  /\ apiStatus = "online" /\ probes = {}

\* The workflow as the component is constructed: stage 1, no name, nothing
\* run.  The streaming session, the reader and the preference leave it alone.
NoFile == "<null>"                \* lastUploadedFilename === null
NoStats == "<null>"               \* preprocessStats === null
SomeStats == "stats"              \* the object setPreprocessStats is given: truthy
IdleStatuses == [upload |-> "idle", preprocess |-> "idle", train |-> "idle"]

FlowConstructed ==
  /\ activeStep = 1 /\ profileName = "" /\ lastUploadedFilename = NoFile
  /\ preprocessStats = NoStats
  /\ stepStatuses = IdleStatuses
  /\ profiles = {} /\ runs = {} /\ nRuns = 0

FlowIdle == FlowConstructed /\ profilesStatus = "idle" /\ pendingLoads = 0

Init == impl \in {"react", "dom"} /\ SessionInit /\ ReaderIdle /\ PrefIdle /\ FlowIdle

Next ==
  \/ Tick
  \/ \E speaker \in FieldValues, text \in FieldValues : StartInferenceCall(speaker, text)
  \/ StartInferenceResume
  \/ StopInferenceCall
  \/ StopInferenceClosed
  \/ StopInferenceResume
  \/ \E profile \in FieldValues, text \in FieldValues : StreamBtnClick(profile, text)
  \/ StreamBtnResume
  \/ StopStream
  \/ \E s \in Sessions, o \in {"ok", "http_error", "network_error"} : FetchSettles(s, o)
  \/ \E s \in Sessions : AbortObserved(s)
  \/ \E s \in Sessions : StreamEnds(s)
  \/ \E s \in Sessions : ReadFails(s)
  \/ \E s \in Sessions, line \in StreamLines : DeliverLine(s, line)
  \/ \E d \in DecodeIds : DecodeResolves(d)
  \/ \E d \in DecodeIds : DecodeRejects(d)

Spec == Init /\ [][Next]_vars

\* ------------------------------------ streamResponseLines / streamTextResponse
\* The body is a sequence of characters; a line is a sequence of characters.
Chars == {"a", " ", "\n"}

RECURSIVE SeqsUpTo(_)
SeqsUpTo(n) == IF n = 0 THEN {<<>>}
               ELSE SeqsUpTo(n - 1) \cup {Append(q, c) : q \in {r \in SeqsUpTo(n - 1) : Len(r) = n - 1}, c \in Chars}

\* buffer.indexOf('\n'), 1-based; 0 when there is none (-1 in the source)
RECURSIVE IndexOfNewline(_, _)
IndexOfNewline(buf, from) ==
  IF from > Len(buf) THEN 0
  ELSE IF buf[from] = "\n" THEN from ELSE IndexOfNewline(buf, from + 1)

\* (mutant) the buffer is overwritten by each read
BufferAppend_Overwritten(buffer, chunk) == chunk

\* buffer += decoder.decode(value, { stream: true })
BufferAppend(buffer, chunk) == buffer \o chunk

\* The inner loop: while the buffer holds a newline, cut the line before it,
\* trim it and hand it to onLine unless empty.  The result is the buffer left
\* and the lines handed over.
RECURSIVE DrainLines(_, _)
DrainLines(buffer, out) ==
  LET index == IndexOfNewline(buffer, 1) IN
  IF index = 0 THEN [buffer |-> buffer, lines |-> out]
  ELSE LET line == Trim(SubSeq(buffer, 1, index - 1))
           rest == SubSeq(buffer, index + 1, Len(buffer))
       IN DrainLines(rest, IF line # <<>> THEN Append(out, line) ELSE out)

\* (mutant) what is left in the buffer at the end of the body is dropped
FlushLines_Dropped(buffer, out) == out

\* After the loop: if (buffer.trim()) onLine(buffer.trim())
FlushLines(buffer, out) == IF Trim(buffer) # <<>> THEN Append(out, Trim(buffer)) ELSE out

\* reader.read() resolves with the next k characters of the body (k = 0: an
\* empty read).
ReaderRead(k) ==
  /\ rdState = "reading"
  /\ rdReads < MaxReads
  /\ k <= Len(rdRest)
  /\ rdReads' = rdReads + 1
  /\ LET chunk == SubSeq(rdRest, 1, k)
         drained == DrainLines(BufferAppend(rdBuffer, chunk), rdLines)
     IN /\ rdBuffer' = drained.buffer
        /\ rdLines' = drained.lines
        /\ rdRest' = SubSeq(rdRest, k + 1, Len(rdRest))
  /\ UNCHANGED <<rdInput, rdState, impl, rejections, clockVars, sessionVars, reactVars, domVars, scheduled, prefVars, flowVars, pendingStops>>

\* reader.read() resolves with done.
ReaderEnd ==
  /\ rdState = "reading"
  /\ rdRest = <<>>
  /\ rdLines' = FlushLines(rdBuffer, rdLines)
  /\ rdState' = "done"
  /\ UNCHANGED <<rdInput, rdRest, rdBuffer, rdReads, impl, rejections, clockVars, sessionVars, reactVars, domVars, scheduled, prefVars, flowVars, pendingStops>>

\* (mutant) a failed read ends the loop like the end of the body
ReaderFails_Flushed ==
  /\ rdState = "reading"
  /\ rdLines' = FlushLines(rdBuffer, rdLines)
  /\ rdState' = "rejected"
  /\ UNCHANGED <<rdInput, rdRest, rdBuffer, rdReads, impl, rejections, clockVars, sessionVars, reactVars, domVars, scheduled, prefVars, flowVars, pendingStops>>

\* reader.read() rejects (a transport error, or the abort of the request):
\* nothing in streamResponseLines catches it, so the function's promise
\* rejects with it and the code after the loop is not reached.
ReaderFails ==
  /\ rdState = "reading"
  /\ rdState' = "rejected"
  /\ UNCHANGED <<rdInput, rdRest, rdBuffer, rdLines, rdReads, impl, rejections, clockVars, sessionVars, reactVars, domVars, scheduled, prefVars, flowVars, pendingStops>>

\* The whole body in one read, then the end of the stream.
SingleRead(input) ==
  LET drained == DrainLines(BufferAppend(<<>>, input), <<>>)
  IN FlushLines(drained.buffer, drained.lines)

InitReader ==
  /\ impl \in {"react", "dom"}
  /\ SessionInit
  /\ rdInput \in SeqsUpTo(MaxInput)
  /\ rdRest = rdInput
  /\ rdBuffer = <<>>
  /\ rdLines = <<>>
  /\ rdState = "reading"
  /\ rdReads = 0
  /\ PrefIdle /\ FlowIdle

NextReader ==
  \/ \E k \in 0..MaxInput : ReaderRead(k)
  \/ ReaderEnd
  \/ ReaderFails

SpecReader == InitReader /\ [][NextReader]_vars

\* --------------------------------------------------- the API base preference
\* if (cached) ...: null and the empty string are falsy
Truthy(str) == str # StorageMissing /\ str # ""

\* The cleanup of the probe effect: cancelled = true; controller.abort().
CancelProbes(ps) == {[p EXCEPT !.cancelled = TRUE] : p \in ps}

\* The probe effect: setApiStatus('checking'); fetch(`${apiBase}/docs`, ...).
StartProbe(ps, base) == ps \cup {[base |-> base, cancelled |-> FALSE]}

MaxLoads == 2         \* loadProfiles() fetches in flight at once

\* loadProfiles() up to its fetch: setProfilesStatus('loading'); GET /profiles.
LoadProfiles ==
  /\ pendingLoads < MaxLoads
  /\ profilesStatus' = "loading"
  /\ pendingLoads' = pendingLoads + 1

\* The first render: useState('http://127.0.0.1:8000'), useState('checking').
AppMount ==
  /\ appPhase = "unmounted"
  /\ appPhase' = "mounting"
  /\ apiBase' = DefaultApiBase
  /\ apiStatus' = "checking"
  /\ pendingApiBase' = NoUpdate
  /\ UNCHANGED <<storedApiBase, probes, lastSet, impl, rejections, clockVars, sessionVars,
                 reactVars, domVars, scheduled, readerVars, flowVars, pendingStops>>

\* The effects of the first commit, in the order they are declared:
\*   const cached = localStorage.getItem(key); if (cached) setApiBase(cached);
\*   localStorage.setItem(key, apiBase)          -- apiBase of the first render
\*   loadProfiles()                              -- apiBase of the first render
\*   the probe of `${apiBase}/docs`              -- apiBase of the first render
\* setApiBase only queues the update; the render that applies it comes later.
MountEffects ==
  /\ appPhase = "mounting"
  /\ appPhase' = "mounted"
  /\ pendingApiBase' = IF Truthy(storedApiBase) THEN storedApiBase ELSE NoUpdate
  /\ storedApiBase' = apiBase
  /\ LoadProfiles
  /\ apiStatus' = "checking"
  /\ probes' = StartProbe(probes, apiBase)
  /\ UNCHANGED <<apiBase, lastSet, impl, rejections, clockVars, sessionVars, reactVars,
                 domVars, scheduled, readerVars, activeStep, profileName, lastUploadedFilename,
                 preprocessStats, stepStatuses, profiles, runs, nRuns, pendingStops>>

\* A render with a new apiBase and the effects that depend on it: the cleanup
\* of the previous probe, localStorage.setItem(key, apiBase), loadProfiles()
\* (a new callback, as apiBase is its dependency), a new probe.  A state
\* update to the same value renders nothing and runs no effect.
RenderApiBase(value) ==
  /\ apiBase' = value
  /\ IF value # apiBase
       THEN /\ storedApiBase' = value
            /\ LoadProfiles
            /\ apiStatus' = "checking"
            /\ probes' = StartProbe(CancelProbes(probes), value)
       ELSE UNCHANGED <<storedApiBase, apiStatus, probes, profilesStatus, pendingLoads>>

\* The render of the update the mount effect queued.
Rerender ==
  /\ appPhase = "mounted"
  /\ pendingApiBase # NoUpdate
  /\ RenderApiBase(pendingApiBase)
  /\ pendingApiBase' = NoUpdate
  /\ UNCHANGED <<appPhase, lastSet, impl, rejections, clockVars, sessionVars, reactVars,
                 domVars, scheduled, readerVars, activeStep, profileName,
                 lastUploadedFilename, preprocessStats, stepStatuses, profiles, runs, nRuns, pendingStops>>

\* The user edits the API Base field: onApiChange(e.target.value).
SetApiBase(value) ==
  /\ appPhase = "mounted"
  /\ pendingApiBase = NoUpdate
  /\ RenderApiBase(value)
  /\ lastSet' = value
  /\ UNCHANGED <<pendingApiBase, appPhase, impl, rejections, clockVars, sessionVars, reactVars,
                 domVars, scheduled, readerVars, activeStep, profileName,
                 lastUploadedFilename, preprocessStats, stepStatuses, profiles, runs, nRuns, pendingStops>>

\* (mutant) a settling probe does not look at `cancelled`
ProbeSettles_Unguarded(p, ok) ==
  /\ p \in probes
  /\ probes' = probes \ {p}
  /\ apiStatus' = IF ok THEN "online" ELSE "offline"
  /\ UNCHANGED <<apiBase, storedApiBase, pendingApiBase, appPhase, lastSet, impl, rejections,
                 clockVars, sessionVars, reactVars, domVars, scheduled, readerVars, flowVars, pendingStops>>

\* A probe settles: .then(res => { if (!cancelled) setApiStatus(res.ok ? 'online' : 'offline') })
\* and .catch(() => { if (!cancelled) setApiStatus('offline') }).
ProbeSettles(p, ok) ==
  /\ p \in probes
  /\ probes' = probes \ {p}
  /\ apiStatus' = IF p.cancelled THEN apiStatus
                  ELSE IF ok THEN "online" ELSE "offline"
  /\ UNCHANGED <<apiBase, storedApiBase, pendingApiBase, appPhase, lastSet, impl, rejections,
                 clockVars, sessionVars, reactVars, domVars, scheduled, readerVars, flowVars, pendingStops>>

\* The component goes away (the page is reloaded or closed, or the root is
\* unmounted): the effects are cleaned up and the whole component state
\* (every useState and useRef of App) is gone; the next mount starts from the
\* defaults.  localStorage stays.  The only cleanup in the code is the
\* probe's, so a /stream session, a decode or an audio context still alive
\* would go on without the component: the step is modelled for a component
\* that has none, where a reload and an unmount leave the same state.  A
\* loadProfiles() or a stage call in flight only sets state of the component
\* that is gone.
AppUnmount ==
  /\ appPhase = "mounted"
  /\ audioContextRef = "null" /\ decodes = {} /\ pendingStarts = 0 /\ pendingStops = 0
  /\ \A s \in Sessions : ~InFlight(s)
  /\ appPhase' = "unmounted"
  /\ apiBase' = DefaultApiBase
  /\ apiStatus' = "checking"
  /\ probes' = {}
  /\ pendingApiBase' = NoUpdate
  /\ activeStep' = 1 /\ profileName' = "" /\ lastUploadedFilename' = NoFile
  /\ preprocessStats' = NoStats
  /\ stepStatuses' = IdleStatuses
  /\ profiles' = {} /\ profilesStatus' = "idle" /\ pendingLoads' = 0
  /\ runs' = {} /\ nRuns' = 0
  /\ audioContextRef' = "null" /\ nextStartTimeRef' = 0 /\ streamAbortRef' = 0
  /\ inferenceStatus' = "idle" /\ latency' = NoLatency /\ inferenceChunks' = <<>>
  /\ session' = [s \in Sessions |-> NoSession]
  /\ nSessions' = 0 /\ pendingStarts' = 0 /\ pendingStops' = 0 /\ decodes' = {}
  /\ scheduled' = <<>>
  /\ currentTime' = 0
  /\ UNCHANGED <<storedApiBase, lastSet, impl, rejections, perfNow, ticks, suspended, domVars, readerVars>>

Probes == [base : BaseValues, cancelled : BOOLEAN]

\* GET /profiles: what the server may answer
ProfileInfos == [name : {"a"}, has_data : BOOLEAN, has_profile : BOOLEAN]
ProfileLists == {{}} \cup {{item} : item \in ProfileInfos}

streamVars == <<impl, rejections, clockVars, sessionVars, reactVars, domVars, scheduled, readerVars, prefVars,
                pendingStops>>

\* A loadProfiles() fetch settles: with a list, or with an error.
LoadProfilesSettles(ok, list) ==
  /\ pendingLoads > 0
  /\ pendingLoads' = pendingLoads - 1
  /\ IF ok THEN profiles' = list /\ profilesStatus' = "idle"
           ELSE profilesStatus' = "error" /\ UNCHANGED profiles
  /\ UNCHANGED <<streamVars, preprocessStats, activeStep, profileName, lastUploadedFilename, stepStatuses, runs, nRuns>>

\* A fresh browser profile, before the page loads for the first time.
InitApiBase ==
  /\ impl = "react"
  /\ SessionInit /\ ReaderIdle
  /\ apiBase = DefaultApiBase
  /\ storedApiBase = StorageMissing
  /\ pendingApiBase = NoUpdate
  /\ appPhase = "unmounted"
  /\ apiStatus = "checking" /\ probes = {}
  /\ lastSet = NoUpdate
  /\ FlowIdle

NextApiBase ==
  \/ AppMount
  \/ MountEffects
  \/ Rerender
  \/ \E value \in BaseValues : SetApiBase(value)
  \/ \E p \in Probes, ok \in BOOLEAN : ProbeSettles(p, ok)
  \/ \E ok \in BOOLEAN, list \in ProfileLists : LoadProfilesSettles(ok, list)
  \/ AppUnmount

SpecApiBase == InitApiBase /\ [][NextApiBase]_vars

\* ------------------------------------------- one session, chunks of any length
\* One /stream session of either implementation, started on filled-in fields
\* and never stopped, whose response carries audio records of the durations
\* and indexes above: what scheduleBuffer does with each decoded buffer.
FilledField == <<"a">>

NoStartYet == nSessions = 0 /\ pendingStarts = 0

ChunkStartInference == NoStartYet /\ StartInferenceCall(FilledField, FilledField)

ChunkStreamBtnClick == NoStartYet /\ StreamBtnClick(FilledField, FilledField)

NextChunks ==
  \/ Tick
  \/ ChunkStartInference
  \/ StartInferenceResume
  \/ ChunkStreamBtnClick
  \/ StreamBtnResume
  \/ FetchSettles(1, "ok")
  \/ \E line \in ChunkLines \cup DoneLines : DeliverLine(1, line)
  \/ \E d \in decodes : DecodeResolves(d)
  \/ StreamEnds(1)

SpecChunks == Init /\ [][NextChunks]_vars

\* ------------------------------------------------------------- the workflow
MaxRuns == 3          \* upload, preprocess and train calls in one run

\* profile.name as typed or selected; "a" may exist on the server, "b" does not
ProfileNames == {"", "a", "b"}
UploadedFile == "sample.wav"      \* data.filename of the /upload response

\* const currentProfileInfo = profiles.find((item) => item.name === profile.name)
HasData == \E item \in profiles : item.name = profileName /\ item.has_data
HasTrainedProfile == \E item \in profiles : item.name = profileName /\ item.has_profile

CanProceedTo(step) ==
  CASE step = 1 -> TRUE
    [] step = 2 -> profileName # ""
    [] step = 3 -> stepStatuses.preprocess = "done" \/ HasData
    [] step = 4 -> stepStatuses.train = "done" \/ HasTrainedProfile
    [] OTHER -> FALSE

\* The numbered step buttons: onClick={() => canProceedTo(step) && setActiveStep(step)}
StepButton(step) ==
  /\ CanProceedTo(step)
  /\ activeStep' = step
  /\ UNCHANGED <<streamVars, preprocessStats, profileName, lastUploadedFilename, stepStatuses, profiles,
                 profilesStatus, pendingLoads, runs, nRuns>>

\* Previous: shown when activeStep > 1
Previous ==
  /\ activeStep > 1
  /\ activeStep' = activeStep - 1
  /\ UNCHANGED <<streamVars, preprocessStats, profileName, lastUploadedFilename, stepStatuses, profiles,
                 profilesStatus, pendingLoads, runs, nRuns>>

\* Next Stage: shown when canProceedTo(activeStep + 1) && activeStep < 4
NextStage ==
  /\ CanProceedTo(activeStep + 1) /\ activeStep < 4
  /\ activeStep' = activeStep + 1
  /\ UNCHANGED <<streamVars, preprocessStats, profileName, lastUploadedFilename, stepStatuses, profiles,
                 profilesStatus, pendingLoads, runs, nRuns>>

\* The name input of stage 1
EditName(name) ==
  /\ activeStep = 1
  /\ profileName' = name
  /\ UNCHANGED <<streamVars, preprocessStats, activeStep, lastUploadedFilename, stepStatuses, profiles,
                 profilesStatus, pendingLoads, runs, nRuns>>

\* A button of the list of existing profiles (stage 1, list loaded)
SelectProfile(item) ==
  /\ activeStep = 1 /\ profilesStatus = "idle" /\ item \in profiles
  /\ profileName' = item.name
  /\ lastUploadedFilename' = NoFile
  /\ activeStep' = IF item.has_profile THEN 4 ELSE 2
  /\ UNCHANGED <<streamVars, preprocessStats, stepStatuses, profiles, profilesStatus, pendingLoads, runs, nRuns>>

\* loadProfiles(), from the Refresh button of stage 1
Refresh ==
  /\ activeStep = 1
  /\ pendingLoads < MaxLoads
  /\ profilesStatus' = "loading"
  /\ pendingLoads' = pendingLoads + 1
  /\ UNCHANGED <<streamVars, preprocessStats, activeStep, profileName, lastUploadedFilename, stepStatuses, profiles,
                 runs, nRuns>>

\* One call of handleUpload / startPreprocess / startTraining up to its
\* fetch: the stage is marked running; startPreprocess clears the statistics.
StartRun(kind) ==
  /\ nRuns < MaxRuns
  /\ nRuns' = nRuns + 1
  /\ runs' = runs \cup {[id |-> nRuns + 1, kind |-> kind, phase |-> "fetching"]}
  /\ stepStatuses' = [stepStatuses EXCEPT ![kind] = "running"]
  /\ preprocessStats' = IF kind = "preprocess" THEN NoStats ELSE preprocessStats
  /\ UNCHANGED <<streamVars, activeStep, profileName, lastUploadedFilename, profiles,
                 profilesStatus, pendingLoads>>

\* The file input of stage 1 (disabled without a name)
HandleUpload == activeStep = 1 /\ profileName # "" /\ StartRun("upload")

\* The button of stage 2 (disabled while running, without a name or a file).
\* It is rendered only while preprocessStats is null: the statistics take its
\* place.
StartPreprocess ==
  /\ activeStep = 2
  /\ preprocessStats = NoStats
  /\ stepStatuses.preprocess # "running" /\ profileName # "" /\ lastUploadedFilename # NoFile
  /\ StartRun("preprocess")

\* The button of stage 3 (disabled while running); if (!profile.name) return
StartTraining ==
  /\ activeStep = 3
  /\ stepStatuses.train # "running" /\ profileName # ""
  /\ StartRun("train")

\* The response arrives with res.ok: the call goes on to read it (res.json()
\* for an upload, streamResponseLines otherwise).
RunResponds(r) ==
  /\ r \in runs /\ r.phase = "fetching"
  /\ runs' = (runs \ {r}) \cup {[r EXCEPT !.phase = "reading"]}
  /\ UNCHANGED <<streamVars, preprocessStats, activeStep, profileName, lastUploadedFilename, stepStatuses, profiles,
                 profilesStatus, pendingLoads, nRuns>>

\* The /preprocess body delivers a line matching
\* /Segments: raw=(\d+) merged=(\d+) kept=(\d+)/: setPreprocessStats({...}).
PreprocessStatsLine(r) ==
  /\ r \in runs /\ r.kind = "preprocess" /\ r.phase = "reading"
  /\ preprocessStats' = SomeStats
  /\ UNCHANGED <<streamVars, activeStep, profileName, lastUploadedFilename, stepStatuses, profiles,
                 profilesStatus, pendingLoads, runs, nRuns>>

\* The stage a call opens when it succeeds: setActiveStep(2) / (3) / (4)
StepAfter(kind) == CASE kind = "upload" -> 2 [] kind = "preprocess" -> 3 [] kind = "train" -> 4

\* (mutant) a call that fails marks its stage done and advances
RunFails_Advances(r) ==
  /\ r \in runs
  /\ runs' = runs \ {r}
  /\ stepStatuses' = [stepStatuses EXCEPT ![r.kind] = "done"]
  /\ activeStep' = StepAfter(r.kind)
  /\ UNCHANGED <<streamVars, preprocessStats, profileName, lastUploadedFilename, profiles, profilesStatus,
                 pendingLoads, nRuns>>

\* The body has been read to its end: the stage is done, the next stage is
\* shown and loadProfiles() is called.
RunCompletes(r) ==
  /\ r \in runs /\ r.phase = "reading"
  /\ runs' = runs \ {r}
  /\ stepStatuses' = [stepStatuses EXCEPT ![r.kind] = "done"]
  /\ activeStep' = StepAfter(r.kind)
  /\ lastUploadedFilename' = IF r.kind = "upload" THEN UploadedFile ELSE lastUploadedFilename
  /\ profilesStatus' = "loading"
  /\ pendingLoads' = pendingLoads + 1
  /\ UNCHANGED <<streamVars, preprocessStats, profileName, profiles, nRuns>>

\* The fetch rejects, the response is not ok, or reading the body fails: the
\* catch marks the stage 'error'.
RunFails(r) ==
  /\ r \in runs
  /\ runs' = runs \ {r}
  /\ stepStatuses' = [stepStatuses EXCEPT ![r.kind] = "error"]
  /\ UNCHANGED <<streamVars, preprocessStats, activeStep, profileName, lastUploadedFilename, profiles,
                 profilesStatus, pendingLoads, nRuns>>

\* The mounted component: the mount effect has called loadProfiles().
InitWorkflow ==
  /\ impl = "react"
  /\ SessionInit /\ ReaderIdle /\ PrefIdle
  /\ FlowConstructed
  /\ profilesStatus = "loading" /\ pendingLoads = 1

NextWorkflow ==
  \/ \E step \in 1..4 : StepButton(step)
  \/ Previous
  \/ NextStage
  \/ \E name \in ProfileNames : EditName(name)
  \/ \E item \in ProfileInfos : SelectProfile(item)
  \/ Refresh
  \/ \E ok \in BOOLEAN, list \in ProfileLists : LoadProfilesSettles(ok, list)
  \/ HandleUpload
  \/ StartPreprocess
  \/ StartTraining
  \/ \E r \in runs : RunResponds(r)
  \/ \E r \in runs : PreprocessStatsLine(r)
  \/ \E r \in runs : RunCompletes(r)
  \/ \E r \in runs : RunFails(r)

SpecWorkflow == InitWorkflow /\ [][NextWorkflow]_vars

\* ---------------------------------------------- the two schedulers, side by side
\* Both implementations are given the same stream: each start handler reads
\* the clock when the stream starts, and each scheduleBuffer is handed every
\* decoded buffer at the same reading of the clock.
MaxChunks == 3        \* buffers handed to the two schedulers

\* The speaker both programs are given: profile.name of the component, typed
\* into the inferProfile field of the DOM-bound script as well.
SpeakerField == IF profileName = "" THEN <<>> ELSE <<profileName>>

\* The texts the twins are given: none, or one both input checks accept.  (A
\* text of blanks passes the React check and fails the DOM check on the
\* trimmed value: React would start alone, with no twin to compare.)
TwinTexts == {<<>>, <<"a">>}

\* if (!profile.name || !inferenceText) return;                  (App.tsx:322)
\* if (!profile || !text) { streamStatus.textContent = ...; return; }  (993-996)
TwinInputsMissing(text) ==
  \/ InputsMissing(SpeakerField, text)
  \/ InputsMissing(Trim(SpeakerField), Trim(text))

\* What both handlers do before `await ensureAudioContext()` once the input
\* checks have passed: the DOM handler writes its status line, and each
\* ensureAudioContext creates its context.
TwinEnsureContexts ==
  /\ streamStatus' = "Streaming..."
  /\ streamTiming' = NoTiming
  /\ audioContextRef' = "open" /\ stateAudioCtx' = "open"
  /\ currentTime' = IF audioContextRef = "null" THEN 0 ELSE currentTime

\* Both start handlers up to `await ensureAudioContext()`.  With a field
\* missing React returns at once and the DOM handler leaves its prompt; with
\* the fields filled in both create their contexts and, the contexts being
\* suspended, wait for resume(): until it resolves the audio clock stands still.
TwinClick(text) ==
  /\ nSessions = 0 /\ pendingStarts = 0
  /\ IF TwinInputsMissing(text)
       THEN /\ streamStatus' = ProvidePrompt
            /\ UNCHANGED <<pendingStarts, streamTiming, audioContextRef, stateAudioCtx, currentTime,
                           suspended>>
       ELSE /\ pendingStarts' = 1
            /\ TwinEnsureContexts
            /\ suspended' = TRUE
  /\ UNCHANGED <<impl, rejections, perfNow, ticks, session, nSessions, decodes, nextStartTimeRef,
                 streamAbortRef, inferenceStatus, latency, inferenceChunks, stateNextStart,
                 stateStreamAbort, scheduled, readerVars, prefVars, flowVars, pendingStops>>

\* Both start handlers from the await to their fetch, resume() resolved and
\* the contexts running; with contexts that are created running nothing is
\* waited for and the handlers run from the click
\* (the input checks first: `text` is read in that case only).
\*   startInference: status running, chunks and latency cleared,
\*     nextStartTimeRef.current = audioContextRef.current?.currentTime || 0,
\*     abort of the previous controller, a new controller, the request
\*   streamBtn handler: state.nextStart = state.audioCtx.currentTime + 0.1,
\*     a new controller, the request
TwinStart(text) ==
  /\ nSessions = 0
  /\ pendingStarts' = 0
  /\ suspended' = FALSE
  /\ IF pendingStarts = 0
       THEN /\ ~TwinInputsMissing(text)
            /\ TwinEnsureContexts
       ELSE UNCHANGED <<streamStatus, streamTiming, audioContextRef, stateAudioCtx, currentTime>>
  /\ inferenceStatus' = "running"
  /\ inferenceChunks' = <<>>
  /\ latency' = NoLatency
  /\ nextStartTimeRef' = currentTime'
  /\ stateNextStart' = currentTime' + DomStartOffset
  /\ scheduled' = <<>>
  /\ nSessions' = 1
  /\ session' = [AbortPrevious(session, streamAbortRef) EXCEPT ![1] =
                   [st |-> "fetching", aborted |-> FALSE, abortedBy |-> "none", firstChunk |-> TRUE,
                    firstChunkTime |-> NoTime, startTime |-> perfNow, lines |-> <<>>]]
  /\ streamAbortRef' = 1
  /\ stateStreamAbort' = 1
  /\ UNCHANGED <<impl, rejections, perfNow, ticks, decodes, readerVars, prefVars, flowVars,
                 pendingStops>>

\* scheduleBuffer(buffer) of each implementation on the same buffer: the
\* sources started are recorded in pairs, React's first.
TwinSchedule(duration) ==
  LET n == Len(scheduled) \div 2 + 1
      d == [sess |-> 1, line |-> n, dur |-> duration, index |-> n - 1]
      react == ScheduleBufferStarted(audioContextRef, currentTime, nextStartTimeRef, d)
  IN
  /\ nSessions = 1
  /\ n <= MaxChunks
  /\ nextStartTimeRef' = ScheduleBufferNext(audioContextRef, currentTime, nextStartTimeRef, duration)
  /\ stateNextStart' = DomNextStartAfter(DomStartAt(stateNextStart, currentTime), duration)
  /\ scheduled' = Append(react, [sess |-> d.sess, line |-> d.line, dur |-> d.dur, index |-> d.index,
                                 startAt |-> DomStartAt(stateNextStart, currentTime),
                                 now |-> currentTime, nextBefore |-> stateNextStart,
                                 env |-> NoEnvelope])
  /\ UNCHANGED <<impl, rejections, clockVars, sessionVars, audioContextRef, streamAbortRef,
                 inferenceStatus, latency, inferenceChunks, stateAudioCtx, stateStreamAbort,
                 streamStatus, streamTiming, readerVars, prefVars, flowVars, pendingStops>>

\* The trained profile "a" of the server's list has been selected on stage 1
\* (setProfile, setActiveStep(4)): the component shows the inference stage
\* with profile.name "a".  Nothing has been started; the two audio contexts,
\* once created, share their clock.
TrainedProfile == [name |-> "a", has_data |-> TRUE, has_profile |-> TRUE]

InitTwins ==
  /\ impl = "react"
  /\ SessionInit /\ ReaderIdle /\ PrefIdle
  /\ activeStep = 4 /\ profileName = TrainedProfile.name /\ lastUploadedFilename = NoFile
  /\ preprocessStats = NoStats
  /\ stepStatuses = IdleStatuses
  /\ profiles = {TrainedProfile} /\ profilesStatus = "idle" /\ pendingLoads = 0
  /\ runs = {} /\ nRuns = 0

NextTwins ==
  \/ Tick
  \/ \E text \in TwinTexts : TwinClick(text)
  \/ \E text \in TwinTexts : TwinStart(text)
  \/ \E duration \in ChunkDurations : TwinSchedule(duration)

SpecTwins == InitTwins /\ [][NextTwins]_vars

\* ================================================================== claims
Started == Len(scheduled') = Len(scheduled) + 1   \* this step started an audio source

\* C1: chunks of one session are scheduled in the order their lines were read:
\* no source is started for a chunk while the decode of an earlier line of the
\* same session (a decodable one, which will be scheduled in its turn) is still
\* pending.
C1_ScheduledInLineOrder ==
  [][\A d \in decodes :
       (d \notin decodes' /\ Started)
         => ~\E e \in decodes : e.sess = d.sess /\ e.line < d.line /\ e.dur # Undecodable]_vars

\* C2: once a session's controller is aborted, a decode of that session that
\* settles afterwards starts no source and leaves nextStartTime alone.  (Stated
\* for a context that plays: one that stopInference is closing is left out.)
C2_NothingScheduledAfterCancel ==
  [][\A d \in decodes :
       (d \notin decodes' /\ session[d.sess].aborted /\ audioContextRef # "closing")
         => /\ scheduled' = scheduled
            /\ nextStartTimeRef' = nextStartTimeRef
            /\ stateNextStart' = stateNextStart]_vars

\* C3: in the React component every controller but the one startInference
\* created last has been aborted, so at most one /stream request that is not
\* aborted is in flight.
C3_EarlierControllersAborted ==
  impl = "react" =>
    /\ streamAbortRef = nSessions
    /\ \A s \in 1..nSessions : s # streamAbortRef => session[s].aborted
    /\ Cardinality({s \in Sessions : Live(s)}) <= 1

\* C3 witness: a second request is in flight while the first, superseded while
\* still in flight, is aborted.
C3_Witness ==
  /\ impl = "react"
  /\ nSessions = 2
  /\ InFlight(1) /\ session[1].abortedBy = "start"
  /\ Live(2)

\* C4: within one session nextStartTime never decreases: a scheduleBuffer call
\* of the React component leaves it at least as large as it found it.
C4_NextStartNeverDecreases ==
  [][(impl = "react" /\ Started) => nextStartTimeRef' >= nextStartTimeRef]_vars

\* C5 as stated: consecutive React chunks start strictly later, each exactly
\* Overlap before the end of the one before.  (Stated for chunks of one session
\* scheduled in line order and longer than the overlap, so that a violation
\* rests neither on the reordering of C1 nor on the short chunks of C4.)
C5_ExactOverlap ==
  impl = "react" =>
    \A i \in 1..(Len(scheduled) - 1) :
      (/\ scheduled[i].sess = scheduled[i + 1].sess
       /\ scheduled[i].line < scheduled[i + 1].line
       /\ scheduled[i].dur > Overlap) =>
        /\ scheduled[i + 1].startAt = scheduled[i].startAt + scheduled[i].dur - Overlap
        /\ scheduled[i + 1].startAt > scheduled[i].startAt

\* C5 amended: each React chunk starts at the later of the audio clock plus the
\* safety margin and the point Overlap before the end of the chunk before it:
\* never earlier than that point, and exactly there unless the clock has
\* passed it.
C5_StartChain ==
  impl = "react" =>
    \A i \in 1..(Len(scheduled) - 1) :
      LET join == scheduled[i].startAt + scheduled[i].dur - Overlap
          clock == scheduled[i + 1].now + SafetyMargin
      IN /\ scheduled[i + 1].startAt >= join
         /\ scheduled[i + 1].startAt >= clock
         /\ scheduled[i + 1].startAt \in {join, clock}

\* C5 witness: two chunks of one session scheduled in order, the second one
\* Overlap before the end of the first, and not because the clock put it there.
C5_Witness ==
  /\ impl = "react"
  /\ Len(scheduled) = 2
  /\ scheduled[1].sess = scheduled[2].sess /\ scheduled[1].line < scheduled[2].line
  /\ scheduled[2].startAt = scheduled[1].startAt + scheduled[1].dur - Overlap
  /\ scheduled[2].startAt > scheduled[2].now + SafetyMargin

\* C6: after stopInference and a new startInference, the first chunk the new
\* session schedules starts at the audio clock plus the safety margin, whatever
\* the stopped session still had in flight.  (An open context after a stop is
\* the context the new startInference created: the stop has completed.)
C6_RestartStartsFromClock ==
  (impl = "react" /\ audioContextRef = "open") =>
    \A i \in 1..Len(scheduled) :
      (/\ scheduled[i].sess > 1
       /\ session[scheduled[i].sess - 1].abortedBy = "stop"
       /\ \A j \in 1..(i - 1) : scheduled[j].sess # scheduled[i].sess)
        => scheduled[i].startAt = scheduled[i].now + SafetyMargin

\* C7: however the body is cut into reads, the reader delivers the lines a
\* single read of the whole body delivers.
C7_SplitInvariance ==
  rdState = "done" => rdLines = SingleRead(rdInput)

\* C7 witness: a body of two lines, the second without its newline, was read
\* to its end in three reads.
C7_Witness ==
  /\ rdState = "done"
  /\ rdReads = 3
  /\ Len(rdLines) = 2
  /\ rdInput[Len(rdInput)] = "a"

\* C8: a line that is not valid JSON does not abort the stream: it leaves the
\* status alone and the session goes on reading.
C8_BadLineDoesNotAbort ==
  [][\A s \in Sessions :
       DeliverLine(s, BadLine)
         => /\ inferenceStatus' = inferenceStatus
            /\ streamStatus' = streamStatus
            /\ session'[s].st = "reading"
            /\ ~session'[s].aborted]_vars

\* C8 witness: a done record that followed a line that is not JSON was processed.
C8_Witness ==
  \E s \in Sessions :
    /\ Len(session[s].lines) = 2
    /\ session[s].lines[1] = "bad" /\ session[s].lines[2] = "done"
    /\ IF impl = "react" THEN inferenceStatus = "done" ELSE streamStatus = "Done."

\* C9: processing a done record completes the session and records totalMs: the
\* record's inference_ms when present, the measured elapsed time otherwise.
C9_DoneRecordsTotal ==
  [][\A s \in Sessions : \A line \in DoneLines :
       DeliverLine(s, line)
         => (impl = "react"
               => /\ inferenceStatus' = "done"
                  /\ latency'.set
                  /\ latency'.total = TotalMs(line.ms, Elapsed(s)))]_vars

\* C10: in the React component time-to-first-audio is recorded by the first
\* audio line of a session and by nothing else: the recorded value changes only
\* in a step that hands a session its first audio line, and becomes the time
\* elapsed since that session started.
C10_TtfaRecordedOnce ==
  [][(impl = "react" /\ latency'.set /\ (~latency.set \/ latency'.ttfa # latency.ttfa))
       => \E s \in Sessions :
            /\ Len(session'[s].lines) = Len(session[s].lines) + 1
            /\ session'[s].lines[Len(session'[s].lines)] = "audio"
            /\ \A i \in 1..Len(session[s].lines) : session[s].lines[i] # "audio"
            /\ latency'.ttfa = Elapsed(s)]_vars

\* C10 witness: a session has processed two audio lines, the second later than
\* the first, and the recorded value is still that of the first.
C10_Witness ==
  /\ impl = "react"
  /\ \E s \in Sessions :
       /\ session[s].lines = <<"audio", "audio">>
       /\ latency.set
       /\ latency.ttfa < Elapsed(s)

\* A start with an empty speaker or an empty text, in either implementation.
EmptyStart ==
  \E speaker \in FieldValues, text \in FieldValues :
    /\ speaker = <<>> \/ text = <<>>
    /\ StartInferenceCall(speaker, text) \/ StreamBtnClick(speaker, text)

\* C11 as stated: a start with an empty speaker or an empty text issues no
\* request, creates or resumes no audio context and leaves status, latency,
\* chunk list, nextStartTime and the current controller unchanged, in both
\* implementations.
C11_EmptyStartChangesNothing ==
  [][EmptyStart => UNCHANGED <<sessionVars, reactVars, domVars, currentTime, suspended, scheduled>>]_vars

\* C11 amended: the same, except that the DOM-bound handler puts its prompt in
\* the status line.
C11_EmptyStartKeepsSession ==
  [][EmptyStart =>
       /\ UNCHANGED <<sessionVars, reactVars, currentTime, suspended, scheduled>>
       /\ UNCHANGED <<stateAudioCtx, stateNextStart, stateStreamAbort, streamTiming>>
       /\ streamStatus' = IF impl = "dom" THEN ProvidePrompt ELSE streamStatus]_vars

\* C11 witness: a start with an empty field was refused while a session was
\* reading its response; the session, its controller and the context are as
\* they were.
C11_Witness ==
  /\ impl = "dom"
  /\ streamStatus = ProvidePrompt
  /\ nSessions = 1 /\ pendingStarts = 0
  /\ stateStreamAbort = 1 /\ Live(1) /\ session[1].st = "reading"
  /\ stateAudioCtx = "open"

\* C12: an abort is never reported as a failure: the step in which an aborted
\* session's request or read ends leaves the status alone, and the status turns
\* to error only in a step that ends a session whose controller is not aborted.
C12_AbortIsNotAnError ==
  [][/\ \A s \in Sessions : AbortObserved(s) => UNCHANGED <<inferenceStatus, streamStatus>>
     /\ ((inferenceStatus' = "error" /\ inferenceStatus # "error")
           \/ (streamStatus' = "Error" /\ streamStatus # "Error"))
          => \E s \in Sessions : Live(s) /\ session'[s].st = "failed"]_vars

\* C12 witness: the request of a session superseded by a new start, and then
\* that of the new session, stopped by stopInference, have both ended in their
\* AbortError, and the status is idle.
C12_Witness ==
  /\ impl = "react"
  /\ session[1].st = "cancelled" /\ session[1].abortedBy = "start"
  /\ session[2].st = "cancelled" /\ session[2].abortedBy = "stop"
  /\ inferenceStatus = "idle"

\* The request or the read of session s fails, and not by an abort.
TransportFailure(s) ==
  \/ FetchSettles(s, "http_error")
  \/ FetchSettles(s, "network_error")
  \/ ReadFails(s)

\* C13: a network failure or a response that is not ok, on a session that is
\* not aborted, sets the status to error and ends the session; no line of a
\* failed session is handed to the handler afterwards.
C13_FailureEndsSession ==
  [][\A s \in Sessions :
       /\ TransportFailure(s)
            => /\ session'[s].st = "failed"
               /\ IF impl = "react" THEN inferenceStatus' = "error" ELSE streamStatus' = "Error"
       /\ session[s].st = "failed"
            => /\ session'[s].st = "failed"
               /\ session'[s].lines = session[s].lines]_vars

\* C13 witness: a session read one audio line, then its read failed; the
\* status is error.
C13_Witness ==
  /\ impl = "react"
  /\ session[1].st = "failed" /\ session[1].lines = <<"audio">>
  /\ inferenceStatus = "error"

\* What scheduleBuffer leaves in nextStart after a chunk, in either twin.
NextStartLeftBy(e) ==
  IF impl = "react" THEN NextStartAfter(e.startAt, e.dur) ELSE DomNextStartAfter(e.startAt, e.dur)

\* An audio line whose payload atob refuses.
BadBase64Line == [kind |-> "audio", ms |-> NoMs, b64ok |-> FALSE, dur |-> Undecodable, index |-> 0]

\* C14: a chunk that fails to decode does not touch the scheduler.  The line
\* whose base64 is invalid, and the decode that rejects, leave nextStartTime,
\* the started sources, the chunk list and the status as they were; every
\* source is started from the nextStartTime the source before it left, so a
\* dropped chunk in between leaves no trace; and a done record completes the
\* session whatever was dropped before it.
C14_DroppedChunkLeavesScheduler ==
  /\ [][/\ \A s \in Sessions :
            DeliverLine(s, BadBase64Line)
              => UNCHANGED <<nextStartTimeRef, stateNextStart, scheduled, decodes,
                             inferenceChunks, inferenceStatus, streamStatus>>
        /\ \A d \in decodes :
            DecodeRejects(d)
              => UNCHANGED <<nextStartTimeRef, stateNextStart, scheduled,
                             inferenceChunks, inferenceStatus, streamStatus>>
        /\ \A s \in Sessions : \A line \in DoneLines :
            DeliverLine(s, line)
              => IF impl = "react" THEN inferenceStatus' = "done" ELSE streamStatus' = "Done."]_vars
  /\ [](\A i \in 2..Len(scheduled) : scheduled[i].nextBefore = NextStartLeftBy(scheduled[i - 1]))

\* C14 witness: the first audio line of a session was dropped (its base64 or
\* its decode failed) and the second was then scheduled at the clock plus the
\* safety margin, as a first chunk is.
C14_Witness ==
  \E s \in Sessions :
    /\ session[s].lines = <<"audio", "audio">>
    /\ decodes = {}
    /\ Len(scheduled) = 1
    /\ scheduled[1].sess = s /\ scheduled[1].line = 2
    /\ scheduled[1].startAt = scheduled[1].now + SafetyMargin
    /\ ~\E t \in Sessions : t # s /\ session[t].lines # <<>>

\* stopInference runs its last statement, after `await resetAudio()`.
StopInferenceCompletes == StopInferenceResume

\* C15: stopInference aborts the controller that is current when it is called,
\* and an abort is never undone; when it completes the context is discarded,
\* nextStartTime is 0 and the status is idle; with no controller and no context
\* the call throws nothing, changes no session and goes on to its last
\* statement.
C15_StopTearsDown ==
  [][/\ StopInferenceCall => (streamAbortRef # 0 => session'[streamAbortRef].aborted)
     /\ \A s \in Sessions : session[s].aborted => session'[s].aborted
     /\ StopInferenceCompletes
          => /\ audioContextRef' = "null"
             /\ nextStartTimeRef' = 0
             /\ inferenceStatus' = "idle"
     /\ (StopInferenceCall /\ streamAbortRef = 0 /\ audioContextRef = "null")
          => /\ pendingStops' = 1
             /\ session' = session
             /\ rejections' = rejections]_vars

\* C15 witness: stopInference has completed on a session that had scheduled a
\* chunk: its request ended in the abort, there is no context, nextStartTime
\* is 0.
C15_Witness ==
  /\ impl = "react"
  /\ nSessions = 1 /\ pendingStarts = 0
  /\ session[1].st = "cancelled" /\ session[1].abortedBy = "stop"
  /\ Len(inferenceChunks) = 1
  /\ audioContextRef = "null" /\ nextStartTimeRef = 0 /\ inferenceStatus = "idle"
  /\ pendingStops = 0

\* C16: no source is started in the past: in both implementations every start
\* time is at least the audio clock read by that scheduleBuffer call plus the
\* safety margin, and at least the nextStartTime the call found.
C16_NeverInThePast ==
  \A i \in 1..Len(scheduled) :
    /\ scheduled[i].startAt >= scheduled[i].now + SafetyMargin
    /\ scheduled[i].startAt >= scheduled[i].nextBefore

\* C16 witness: two chunks were scheduled, the first placed by the clock (ahead
\* of nextStartTime), the second by nextStartTime (ahead of the clock).
C16_Witness ==
  /\ Len(scheduled) = 2
  /\ scheduled[1].startAt = scheduled[1].now + SafetyMargin
  /\ scheduled[1].startAt > scheduled[1].nextBefore
  /\ scheduled[2].startAt = scheduled[2].nextBefore
  /\ scheduled[2].startAt > scheduled[2].now + SafetyMargin

\* C17: while a session of the React component is active (its controller is
\* the current one and its request is in flight, not aborted), whatever is
\* appended to inferenceChunks and whatever moves nextStartTime comes from a
\* chunk of that session.
C17_ChunksBelongToCurrentSession ==
  [][\A d \in decodes :
       (/\ impl = "react"
        /\ d \notin decodes'
        /\ streamAbortRef # 0 /\ Live(streamAbortRef)
        /\ audioContextRef = "open"
        /\ (inferenceChunks' # inferenceChunks \/ nextStartTimeRef' # nextStartTimeRef))
         => d.sess = streamAbortRef]_vars

\* C18: the handler classifies every line and throws for none: an audio line
\* (with a payload atob accepts, and a context to decode it) goes to the
\* decoder, a done record sets done, any other record changes nothing, and no
\* line makes the handler's promise reject.
C18_EveryLineHandled ==
  [][\A s \in Sessions : \A line \in StreamLines :
       DeliverLine(s, line)
         => /\ rejections' = rejections
            /\ (line.kind = "audio" /\ line.b64ok /\ HasContext)
                 => decodes' = decodes \cup {[sess |-> s, line |-> Len(session[s].lines) + 1, dur |-> line.dur,
                                             index |-> line.index]}
            /\ line.kind = "done"
                 => IF impl = "react" THEN inferenceStatus' = "done" ELSE streamStatus' = "Done."
            /\ line.kind = "other"
                 => UNCHANGED <<decodes, reactVars, domVars, scheduled>>]_vars

\* C19: a decoded chunk is scheduled at once.  Whatever the session is doing
\* (still reading, no done record yet), the continuation of a pending decode
\* can run; when it runs with a context it starts the source in that step; and
\* the first source since nextStartTime was reset starts within the safety
\* margin (React) or the start offset (DOM) of the clock.
C19_FirstChunkPlaysAtOnce ==
  /\ [](\A d \in decodes : d.dur # Undecodable => ENABLED DecodeResolves(d))
  /\ [][\A d \in decodes :
          (DecodeResolves(d) /\ HasContext)
            => /\ Started
               /\ scheduled'[Len(scheduled')].sess = d.sess
               /\ scheduled'[Len(scheduled')].line = d.line
               /\ scheduled = <<>>
                    => scheduled'[1].startAt <= currentTime
                          + (IF impl = "react" THEN SafetyMargin ELSE DomStartOffset)]_vars

\* C19 witness: the first chunk of a session is scheduled while the session is
\* still reading and has been handed nothing but that one audio line.
C19_Witness ==
  \E s \in Sessions :
    /\ Live(s) /\ session[s].st = "reading"
    /\ session[s].lines = <<"audio">>
    /\ Len(scheduled) = 1 /\ scheduled[1].sess = s /\ scheduled[1].line = 1
    /\ decodes = {}

\* C20: the API base survives a reload.  Whenever the component is mounted and
\* has no update of its own left to render, apiBase is the value the user last
\* set, in this page load or in an earlier one; and the effects of a mount
\* never replace a stored value.
C20_ApiBaseSurvivesReload ==
  /\ []((appPhase = "mounted" /\ pendingApiBase = NoUpdate /\ lastSet # NoUpdate)
          => apiBase = lastSet)
  /\ [][MountEffects
          => (storedApiBase # StorageMissing => storedApiBase' = storedApiBase)]_vars

\* Nothing of session s is left to run: its request is over and none of its
\* decodes is pending.
Finished(s) ==
  /\ session[s].st \in {"closed", "failed", "cancelled"}
  /\ ~\E d \in decodes : d.sess = s

\* C21: a session of the React component does not stay in Streaming once its
\* response has ended or failed: when nothing of the current session is left
\* to run (and no start or stop is half way), the status is not running.
C21_EndedSessionLeavesRunning ==
  (/\ impl = "react"
   /\ streamAbortRef # 0
   /\ pendingStarts = 0
   /\ audioContextRef # "closing" /\ pendingStops = 0) =>
     (Finished(streamAbortRef) => inferenceStatus # "running")

\* The handler of session s has processed a done record after its line n.
DoneAfter(s, n) ==
  \E i \in 1..Len(session[s].lines) : i > n /\ session[s].lines[i] = "done"

\* C22: when a done record sets the status, every chunk read before it has been
\* scheduled or dropped: no decode of a line that preceded the done record
\* settles, after it, into a started source or an entry of the chunk list.
C22_NothingScheduledAfterDone ==
  [][\A d \in decodes :
       (impl = "react" /\ d \notin decodes' /\ DoneAfter(d.sess, d.line))
         => /\ scheduled' = scheduled
            /\ inferenceChunks' = inferenceChunks]_vars

\* The handler of session s has processed a done record.
SawDone(s) == \E i \in 1..Len(session[s].lines) : session[s].lines[i] = "done"

\* A step of session s: a line of its response, the end or the failure of its
\* read, its AbortError, or one of its decodes settling.
SessionStep(s) ==
  \/ \E line \in StreamLines : DeliverLine(s, line)
  \/ StreamEnds(s)
  \/ ReadFails(s)
  \/ AbortObserved(s)
  \/ \E d \in decodes : d.sess = s /\ d \notin decodes'

\* C23: done is final for the session: once a done record of the current
\* session has set the status to done, no later step of that session changes
\* the status.
C23_DoneIsStable ==
  [][\A s \in Sessions :
       (/\ impl = "react"
        /\ s = streamAbortRef
        /\ SawDone(s)
        /\ inferenceStatus = "done"
        /\ SessionStep(s))
         => inferenceStatus' = "done"]_vars

\* C24: the running React session always has an audio context: while the
\* status is 'running' (and no stopInference is about to set it to idle),
\* whenever an audio line of the current session, not aborted, reaches the
\* decoder, and whenever one of its decoded chunks reaches scheduleBuffer,
\* audioContextRef is not null.
C24_ActiveSessionHasContext ==
  [][\A s \in Sessions :
       (/\ impl = "react" /\ inferenceStatus = "running" /\ pendingStops = 0
        /\ s = streamAbortRef /\ Live(s)
        /\ \/ \E line \in AudioLines : line.b64ok /\ DeliverLine(s, line)
           \/ \E d \in decodes : d.sess = s /\ DecodeResolves(d))
         => audioContextRef # "null"]_vars

\* C25: in the DOM implementation a new stream first cancels the prior one:
\* at most one DOM session is live (issued and not aborted, failed or ended)
\* at any time, so two sessions never feed state.nextStart together.
C25_DomOneLiveSession ==
  impl = "dom" => Cardinality({s \in Sessions : Live(s)}) <= 1

\* The sources the React scheduleBuffer started for buffers that hold audio.
ReactSources == {i \in 1..Len(scheduled) : impl = "react" /\ scheduled[i].dur > 0}

\* C26: for every chunk of positive duration the fade-in and the fade-out
\* chosen by scheduleBuffer are each at most a quarter of the chunk's
\* duration and at most 10 ms.
C26_FadesWithinQuarter ==
  \A i \in ReactSources :
    LET e == scheduled[i] IN
    /\ 4 * e.env.attack <= e.dur * MicroPerMs /\ e.env.attack <= Attack
    /\ 4 * e.env.release <= e.dur * MicroPerMs /\ e.env.release <= Release

\* C27: the gain envelope of every scheduled chunk of positive duration is
\* ordered in time and stays inside the chunk: start <= end of the fade-in
\* <= start of the fade-out <= start + duration.
C27_EnvelopeOrdered ==
  \A i \in ReactSources :
    LET e == scheduled[i] IN
    /\ e.env.zeroAt = e.startAt * MicroPerMs
    /\ e.env.zeroAt <= e.env.fullAt
    /\ e.env.fullAt <= e.env.holdAt
    /\ e.env.holdAt <= e.env.endAt
    /\ e.env.endAt = (e.startAt + e.dur) * MicroPerMs

\* C28: a decoded chunk of zero duration is dropped: when its decode
\* resolves, the React scheduleBuffer starts no source and leaves
\* nextStartTime as it was.
C28_EmptyChunkDropped ==
  [][\A d \in decodes :
       (impl = "react" /\ d.dur = 0 /\ DecodeResolves(d))
         => scheduled' = scheduled /\ nextStartTimeRef' = nextStartTimeRef]_vars

\* The chunk this session scheduled last arrived before chunk d and carries a
\* chunk_index that d's does not exceed; both hold audio.
OutOfOrder(d) ==
  /\ scheduled # <<>>
  /\ d.dur > 0 /\ scheduled[Len(scheduled)].dur > 0
  /\ scheduled[Len(scheduled)].sess = d.sess
  /\ scheduled[Len(scheduled)].line < d.line
  /\ d.index <= scheduled[Len(scheduled)].index

\* An ordering error shown by the implementation at hand.
ErrorShown == IF impl = "react" THEN inferenceStatus = "error" ELSE streamStatus = "Error"

\* C29: chunks are scheduled in strictly increasing chunk_index order: a
\* chunk whose chunk_index does not exceed that of the chunk the session
\* scheduled before it is not scheduled, and an error is reported.
C29_IndexOrderEnforced ==
  [][\A d \in decodes :
       (OutOfOrder(d) /\ DecodeResolves(d)) => (scheduled' = scheduled /\ ErrorShown')]_vars

\* The part of the body the reader has been given so far.
Consumed == SubSeq(rdInput, 1, Len(rdInput) - Len(rdRest))

\* The newlines of a text, by position, and the segment each one terminates:
\* what lies between it and the newline before it (or the start of the text).
NewlinePositions(str) == {p \in 1..Len(str) : str[p] = "\n"}

SegmentBefore(str, p) ==
  LET before == {q \in NewlinePositions(str) : q < p}
      prev == IF before = {} THEN 0 ELSE CHOOSE q \in before : \A r \in before : r <= q
  IN SubSeq(str, prev + 1, p - 1)

\* The newlines whose segment is not empty after trimming, and the i-th of them.
LineEnds(str) == {p \in NewlinePositions(str) : Trim(SegmentBefore(str, p)) # <<>>}

NthLineEnd(str, i) ==
  CHOOSE p \in LineEnds(str) : Cardinality({q \in LineEnds(str) : q < p}) = i - 1

WellFormedLine(line) ==
  /\ line # <<>>
  /\ \A k \in 1..Len(line) : line[k] # "\n"
  /\ line[1] \notin Whitespace
  /\ line[Len(line)] \notin Whitespace

\* C30: every line the reader delivers is non-empty, holds no newline and has
\* no whitespace at either end; the lines are delivered in the order of their
\* terminating newlines in the body, each the trimmed segment before its
\* newline, and a terminated segment that is empty after trimming delivers no
\* line.  (Once the body has ended, the text after the last newline may add
\* one more line.)
C30_DeliveredLinesWellFormed ==
  LET ends == Cardinality(LineEnds(Consumed)) IN
  /\ \A i \in 1..Len(rdLines) : WellFormedLine(rdLines[i])
  /\ IF rdState = "done" THEN Len(rdLines) \in {ends, ends + 1} ELSE Len(rdLines) = ends
  /\ \A i \in 1..ends : rdLines[i] = Trim(SegmentBefore(Consumed, NthLineEnd(Consumed, i)))

\* C30 witness: the body "a \n\n" has been read in two reads and has
\* delivered the one line "a": the first segment trimmed, the empty second
\* segment skipped.
C30_Witness ==
  /\ rdInput = <<"a", " ", "\n", "\n">>
  /\ rdState = "reading" /\ rdRest = <<>> /\ rdReads = 2
  /\ rdLines = << <<"a">> >>

\* What follows the last newline of a text (the whole text when it has none).
Remainder(str) ==
  LET nl == NewlinePositions(str)
      last == IF nl = {} THEN 0 ELSE CHOOSE q \in nl : \A r \in nl : r <= q
  IN SubSeq(str, last + 1, Len(str))

\* C31: when the body has ended normally, the fragment after its last newline
\* has been delivered exactly once, as the final line and trimmed, if it is
\* not empty after trimming; an empty or whitespace-only remainder has
\* delivered nothing.
C31_TrailingFragmentDeliveredOnce ==
  rdState = "done" =>
    LET ends == Cardinality(LineEnds(rdInput))
        tail == Trim(Remainder(rdInput))
    IN IF tail # <<>>
         THEN Len(rdLines) = ends + 1 /\ rdLines[ends + 1] = tail
         ELSE Len(rdLines) = ends

\* C31 witness: the body "a\n a", whose last two characters follow the only
\* newline, has ended and delivered "a" twice: the terminated line and the
\* trimmed fragment.
C31_Witness ==
  /\ rdInput = <<"a", "\n", " ", "a">>
  /\ rdState = "done"
  /\ rdLines = << <<"a">>, <<"a">> >>

\* C32: a read that fails part-way makes streamResponseLines reject, and the
\* partial line in its buffer is never delivered: once it has rejected, the
\* lines delivered are exactly the trimmed non-empty segments terminated in
\* what had been read, in order, and no line is delivered afterwards.
C32_FailedReadDeliversNoPartialLine ==
  /\ [](rdState = "rejected" =>
          /\ Len(rdLines) = Cardinality(LineEnds(Consumed))
          /\ \A i \in 1..Len(rdLines) :
               rdLines[i] = Trim(SegmentBefore(Consumed, NthLineEnd(Consumed, i))))
  /\ [][ReaderFails => (rdLines' = rdLines /\ rdState' = "rejected")]_vars
  /\ [][rdState = "rejected" => (rdLines' = rdLines /\ rdState' = "rejected")]_vars

\* C32 witness: of the body "a\naa" the reader was given "a\na" when the next
\* read failed: the line "a" was delivered, the buffered "a" was not.
C32_Witness ==
  /\ rdInput = <<"a", "\n", "a", "a">>
  /\ rdRest = <<"a">>
  /\ rdState = "rejected"
  /\ rdBuffer = <<"a">>
  /\ rdLines = << <<"a">> >>

\* The stage shown is a stage, and one whose gate is open.
GateOpen == activeStep \in 1..4 /\ CanProceedTo(activeStep)

\* A user action of the workflow, or the completion or failure of an upload,
\* a preprocess or a training.
WorkflowAction ==
  \/ \E step \in 1..4 : StepButton(step)
  \/ Previous \/ NextStage
  \/ \E name \in ProfileNames : EditName(name)
  \/ \E item \in ProfileInfos : SelectProfile(item)
  \/ HandleUpload \/ StartPreprocess \/ StartTraining
  \/ \E r \in runs : RunResponds(r) \/ RunCompletes(r) \/ RunFails(r)

\* C33: the stage gate is an invariant of the workflow: no step button,
\* Previous / Next, profile selection, name edit, or upload / preprocess /
\* training completing or failing takes the workflow from a stage whose gate
\* is open to a stage outside 1..4 or to one whose gate is closed.
C33_StageGateInvariant ==
  [][(GateOpen /\ WorkflowAction) => GateOpen']_vars

StreamedStages == {"preprocess", "train"}

\* C34: a preprocess or train stage becomes 'done' only in the step in which
\* a call of that stage, whose response was ok and was being read, reaches the
\* end of the body, and that step shows the next stage; a call that fails, at
\* the request or while reading, marks the stage 'error' and leaves
\* activeStep as it was.
C34_DoneOnlyAfterWholeStream ==
  /\ [][\A kind \in StreamedStages :
          (stepStatuses'[kind] = "done" /\ stepStatuses[kind] # "done")
            => \E r \in runs : /\ r.kind = kind /\ r.phase = "reading"
                                /\ r \notin runs'
                                /\ activeStep' = StepAfter(kind)]_vars
  /\ [][\A r \in runs :
          (r.kind \in StreamedStages /\ RunFails(r))
            => stepStatuses'[r.kind] = "error" /\ activeStep' = activeStep]_vars

\* C34 witness: after an upload, the preprocess ran to the end of its body and
\* opened stage 3, where a training failed: the train stage shows 'error' and
\* the workflow is still on stage 3.
C34_Witness ==
  /\ nRuns = 3 /\ runs = {}
  /\ stepStatuses = [upload |-> "done", preprocess |-> "done", train |-> "error"]
  /\ activeStep = 3

\* A time-to-first-audio value is on display: latency.ttfa (React), the
\* "First audio" timing (DOM).
TtfaRecorded == IF impl = "react" THEN latency.set ELSE streamTiming.kind = "first"

\* The session the implementation holds as current.
CurrentSession == IF impl = "react" THEN streamAbortRef ELSE stateStreamAbort

\* C35: time-to-first-audio is recorded only for a playable chunk: when the
\* current session, never aborted, has ended with every decode settled and a
\* time-to-first-audio is recorded, a chunk of that session was scheduled.
C35_TtfaOnlyForPlayableChunk ==
  \A s \in Sessions :
    (/\ s = CurrentSession /\ nSessions = 1
     /\ session[s].st = "closed" /\ ~session[s].aborted
     /\ ~\E d \in decodes : d.sess = s
     /\ TtfaRecorded)
      => \E i \in 1..Len(scheduled) : scheduled[i].sess = s

\* C36: the two implementations schedule identically: given the same buffers
\* at the same readings of the clock, the React and the DOM scheduleBuffer
\* start every chunk at the same time and leave the same nextStartTime.
C36_TwinsScheduleAlike ==
  /\ \A k \in 1..(Len(scheduled) \div 2) :
       scheduled[2 * k - 1].startAt = scheduled[2 * k].startAt
  /\ scheduled # <<>> => nextStartTimeRef = stateNextStart

\* The probes in flight that no cleanup has cancelled.
CurrentProbes == {p \in probes : ~p.cancelled}

\* C37: the liveness probe is race-free.  A probe issued for a superseded
\* apiBase never changes apiStatus when it settles; while the component is
\* mounted the only probe not cancelled is the one for the current apiBase,
\* apiStatus is 'checking' as long as that probe is in flight, a change of
\* apiBase puts it back to 'checking', and when the probe settles apiStatus
\* becomes its outcome.
C37_ProbeRaceFree ==
  /\ [](appPhase = "mounted" =>
          /\ \A p \in CurrentProbes : p.base = apiBase
          /\ Cardinality(CurrentProbes) <= 1
          /\ CurrentProbes # {} => apiStatus = "checking")
  /\ [][\A p \in probes : \A ok \in BOOLEAN :
          ProbeSettles(p, ok) =>
            IF p.cancelled THEN apiStatus' = apiStatus
            ELSE apiStatus' = (IF ok THEN "online" ELSE "offline")]_vars
  /\ [][(appPhase = "mounted" /\ appPhase' = "mounted" /\ apiBase' # apiBase)
          => (apiStatus' = "checking" /\ \E p \in CurrentProbes' : p.base = apiBase')]_vars

\* C37 witness: the probe for the current apiBase has settled ('offline')
\* while a probe for an earlier apiBase, cancelled by the effect's cleanup, is
\* still in flight.
C37_Witness ==
  /\ appPhase = "mounted"
  /\ apiStatus = "offline"
  /\ CurrentProbes = {}
  /\ \E p \in probes : p.cancelled /\ p.base # apiBase

====
